---- MODULE Spec2Model ----
(***************************************************************************)
(* A model of the command library: one Command runs the fixed pipeline     *)
(* validateInputs -> applyDefaultInputs -> validate hook -> execute and    *)
(* owns one Outcome (an error ledger and a result slot).  A command may    *)
(* run a sub-command from its execute hook and copy the child's errors.    *)
(*                                                                         *)
(* JavaScript objects iterate their keys in insertion order, so a schema,  *)
(* an inputs object and the error ledger are sequences of entries with     *)
(* distinct keys, never sets.                                              *)
(***************************************************************************)
EXTENDS Integers, Sequences, FiniteSets, TLC

VARIABLES cls, rawInputs, inputs, started, completed, result, errors,
          pc, exc, steps, last, caught, sub, fatal

vars == <<cls, rawInputs, inputs, started, completed, result, errors,
          pc, exc, steps, last, caught, sub, fatal>>

(***************************************************************************)
(* Bounds of the model.                                                    *)
(***************************************************************************)
\* the largest number of keys a caller supplies
MaxInputs == 2
\* the largest number of non-terminal statements one hook invocation runs
MaxHookSteps == 2
\* the largest number of extra run() invocations on one instance
MaxReruns == 1
\* the largest number of keys a caller supplies when the values range over every kind
MaxWideInputs == 1

(***************************************************************************)
(* JavaScript values.  A value is a record of its kind and its parts: the  *)
(* characters of a string, the (string) elements of an array, the keys of  *)
(* a plain object.                                                         *)
(***************************************************************************)
Str(chars) == [kind |-> "string", chars |-> chars]
Arr(elements) == [kind |-> "array", chars |-> elements]
Obj(keys) == [kind |-> "object", chars |-> keys]
Null == [kind |-> "null", chars |-> <<>>]
Undefined == [kind |-> "undefined", chars |-> <<>>]
NaN == [kind |-> "NaN", chars |-> <<>>]
\* a boolean or a finite number, with the characters String(value) gives
Bool(chars) == [kind |-> "boolean", chars |-> chars]
Num(chars) == [kind |-> "number", chars |-> chars]

RECURSIVE Join(_)
Join(chars) == IF chars = <<>> THEN "" ELSE Head(chars) \o Join(Tail(chars))

RECURSIVE JoinComma(_)
JoinComma(elements) ==
  IF elements = <<>> THEN ""
  ELSE IF Len(elements) = 1 THEN elements[1]
  ELSE elements[1] \o "," \o JoinComma(Tail(elements))

\* what `value + '...'` makes of a value
StringOf(v) ==
  CASE v.kind \in {"string", "boolean", "number"} -> Join(v.chars)
    [] v.kind = "array" -> JoinComma(v.chars)
    [] v.kind = "object" -> "[object Object]"
    [] v.kind = "null" -> "null"
    [] v.kind = "NaN" -> "NaN"
    [] OTHER -> "undefined"

\* the characters the model has that \s matches
WhiteSpace == {" ", "\t"}

isBlankString(v) == v.kind = "string" /\ \A i \in 1..Len(v.chars) : v.chars[i] \in WhiteSpace
isEmptyArray(v) == v.kind = "array" /\ v.chars = <<>>
\* lodash isObject holds of arrays too
isEmptyObject(v) == v.kind \in {"object", "array"} /\ v.chars = <<>>

\* a variant of isBlank without the isNaN test
isBlankWithoutNaN(v) ==
  \/ v.kind = "null"
  \/ v.kind = "undefined"
  \/ isBlankString(v)
  \/ isEmptyArray(v)
  \/ isEmptyObject(v)

isBlank(v) ==
  \/ v.kind = "null"
  \/ v.kind = "undefined"
  \/ isBlankString(v)
  \/ isEmptyArray(v)
  \/ isEmptyObject(v)
  \/ v.kind = "NaN"

(***************************************************************************)
(* Objects with ordered keys: sequences of [k, v] entries.                 *)
(***************************************************************************)
Has(obj, key) == \E i \in 1..Len(obj) : obj[i].k = key

Get(obj, key) == obj[CHOOSE i \in 1..Len(obj) : obj[i].k = key].v

KeysOf(obj) == {obj[i].k : i \in 1..Len(obj)}

(***************************************************************************)
(* Outcome: the error taxonomy and the ledger.  The ledger is a sequence   *)
(* of [category, entries]; entries is a sequence of <<key, message>>.      *)
(***************************************************************************)
NOT_FOUND == "not_found"
INVALID == "invalid"
MISSING == "missing"
BLANK == "blank"
UNSUPPORTED == "unsupported"
RUNTIME == "runtime"
TYPE_MISMATCH == "type_mismatch"
UNKNOWN == "unknown"

HasCategory(errs, category) == \E i \in 1..Len(errs) : errs[i].category = category

EntriesOf(errs, category) ==
  IF HasCategory(errs, category)
  THEN errs[CHOOSE i \in 1..Len(errs) : errs[i].category = category].entries
  ELSE <<>>

hasErrors(errs) == errs # <<>>

success(errs) == ~hasErrors(errs)

\* a variant of addInputError that does not record an entry the category already has
addInputErrorOnce(errs, input, errorKey, message) ==
  IF HasCategory(errs, input)
  THEN [i \in 1..Len(errs) |->
          IF errs[i].category = input
               /\ \A j \in 1..Len(errs[i].entries) : errs[i].entries[j] # <<errorKey, message>>
          THEN [errs[i] EXCEPT !.entries = Append(@, <<errorKey, message>>)]
          ELSE errs[i]]
  ELSE Append(errs, [category |-> input, entries |-> <<<<errorKey, message>>>>])

addInputError(errs, input, errorKey, message) ==
  IF HasCategory(errs, input)
  THEN [i \in 1..Len(errs) |->
          IF errs[i].category = input
          THEN [errs[i] EXCEPT !.entries = Append(@, <<errorKey, message>>)]
          ELSE errs[i]]
  ELSE Append(errs, [category |-> input, entries |-> <<<<errorKey, message>>>>])

addRuntimeError(errs, errorKey, message) == addInputError(errs, RUNTIME, errorKey, message)

addUnknownError(errs, message) == addInputError(errs, RUNTIME, UNKNOWN, message)

setResult(res, value) == value

(***************************************************************************)
(* Command: the four structural checks and defaulting, as functions of the *)
(* schema, the working inputs and the ledger.  A schema is a sequence of   *)
(* [k, v] entries whose v is an input descriptor                           *)
(*   [type, required, allowBlank, hasDefault, default, oneOf].             *)
(***************************************************************************)
RECURSIVE validateSupportedInputsFrom(_, _, _, _)
validateSupportedInputsFrom(schema, ins, errs, i) ==
  IF i > Len(ins) THEN errs
  ELSE LET inputName == ins[i].k
           next == IF ~Has(schema, inputName)
                   THEN addInputError(errs, inputName, UNSUPPORTED,
                                      inputName \o " is not a supported input")
                   ELSE errs
       IN  validateSupportedInputsFrom(schema, ins, next, i + 1)

\* a variant of validateSupportedInputs that reports the first unknown key only
validateSupportedInputsFirstOnly(schema, ins, errs) ==
  IF \E i \in 1..Len(ins) : ~Has(schema, ins[i].k)
  THEN LET first == CHOOSE i \in 1..Len(ins) :
                      /\ ~Has(schema, ins[i].k)
                      /\ \A j \in 1..(i - 1) : Has(schema, ins[j].k)
       IN  addInputError(errs, ins[first].k, UNSUPPORTED,
                         ins[first].k \o " is not a supported input")
  ELSE errs

validateSupportedInputs(schema, ins, errs) == validateSupportedInputsFrom(schema, ins, errs, 1)

RECURSIVE validateBlankInputsFrom(_, _, _, _)
validateBlankInputsFrom(schema, ins, errs, i) ==
  IF i > Len(ins) THEN errs
  ELSE LET inputName == ins[i].k
           next == IF /\ Has(schema, inputName)
                      /\ isBlank(ins[i].v)
                      /\ ~Get(schema, inputName).allowBlank
                   THEN addInputError(errs, inputName, BLANK,
                                      inputName \o " is not allowed to be blank")
                   ELSE errs
       IN  validateBlankInputsFrom(schema, ins, next, i + 1)

validateBlankInputs(schema, ins, errs) == validateBlankInputsFrom(schema, ins, errs, 1)

RECURSIVE validateRequiredInputsFrom(_, _, _, _)
validateRequiredInputsFrom(schema, ins, errs, i) ==
  IF i > Len(schema) THEN errs
  ELSE LET inputName == schema[i].k
           next == IF ~Has(ins, inputName) /\ schema[i].v.required
                   THEN addInputError(errs, inputName, MISSING, inputName \o " is missing")
                   ELSE errs
       IN  validateRequiredInputsFrom(schema, ins, next, i + 1)

\* a variant of validateRequiredInputs that lets a default stand in for a missing key
RECURSIVE validateRequiredUnlessDefaultFrom(_, _, _, _)
validateRequiredUnlessDefaultFrom(schema, ins, errs, i) ==
  IF i > Len(schema) THEN errs
  ELSE LET inputName == schema[i].k
           next == IF ~Has(ins, inputName) /\ schema[i].v.required /\ ~schema[i].v.hasDefault
                   THEN addInputError(errs, inputName, MISSING, inputName \o " is missing")
                   ELSE errs
       IN  validateRequiredUnlessDefaultFrom(schema, ins, next, i + 1)

validateRequiredInputsUnlessDefault(schema, ins, errs) ==
  validateRequiredUnlessDefaultFrom(schema, ins, errs, 1)

validateRequiredInputs(schema, ins, errs) == validateRequiredInputsFrom(schema, ins, errs, 1)

\* Array.prototype.join(', ') over the permitted values
RECURSIVE JoinValues(_)
JoinValues(vals) ==
  IF vals = <<>> THEN ""
  ELSE IF Len(vals) = 1 THEN StringOf(vals[1])
  ELSE StringOf(vals[1]) \o ", " \o JoinValues(Tail(vals))

Includes(vals, v) == \E i \in 1..Len(vals) : vals[i] = v

RECURSIVE validateEnumsFrom(_, _, _, _)
validateEnumsFrom(schema, ins, errs, i) ==
  IF i > Len(schema) THEN errs
  ELSE LET inputName == schema[i].k
           oneOf == schema[i].v.oneOf
           next == IF /\ schema[i].v.type = "enum"
                      /\ Has(ins, inputName)
                      /\ Get(ins, inputName) # Undefined
                      /\ ~Includes(oneOf, Get(ins, inputName))
                   THEN addInputError(errs, inputName, INVALID,
                          StringOf(Get(ins, inputName)) \o " received but must be one of "
                            \o JoinValues(oneOf))
                   ELSE errs
       IN  validateEnumsFrom(schema, ins, next, i + 1)

\* a variant of validateEnums without the `value !== undefined` test
RECURSIVE validateEnumsAnyValueFrom(_, _, _, _)
validateEnumsAnyValueFrom(schema, ins, errs, i) ==
  IF i > Len(schema) THEN errs
  ELSE LET inputName == schema[i].k
           oneOf == schema[i].v.oneOf
           next == IF /\ schema[i].v.type = "enum"
                      /\ Has(ins, inputName)
                      /\ ~Includes(oneOf, Get(ins, inputName))
                   THEN addInputError(errs, inputName, INVALID,
                          StringOf(Get(ins, inputName)) \o " received but must be one of "
                            \o JoinValues(oneOf))
                   ELSE errs
       IN  validateEnumsAnyValueFrom(schema, ins, next, i + 1)

validateEnumsAnyValue(schema, ins, errs) == validateEnumsAnyValueFrom(schema, ins, errs, 1)

validateEnums(schema, ins, errs) == validateEnumsFrom(schema, ins, errs, 1)

\* a variant of validateInputsChecks that stops at the first check that records an error
validateInputsShortCircuit(schema, ins, errs) ==
  LET e1 == validateSupportedInputs(schema, ins, errs)
      e2 == validateBlankInputs(schema, ins, e1)
      e3 == validateRequiredInputs(schema, ins, e2)
  IN  IF hasErrors(e1) THEN e1
      ELSE IF hasErrors(e2) THEN e2
      ELSE IF hasErrors(e3) THEN e3
      ELSE validateEnums(schema, ins, e3)

\* the four checks of validateInputs, before its haltIfHasErrors
validateInputsChecks(schema, ins, errs) ==
  validateEnums(schema, ins,
    validateRequiredInputs(schema, ins,
      validateBlankInputs(schema, ins,
        validateSupportedInputs(schema, ins, errs))))

RECURSIVE applyDefaultInputsFrom(_, _, _)
applyDefaultInputsFrom(schema, ins, i) ==
  IF i > Len(schema) THEN ins
  ELSE LET inputName == schema[i].k
           next == IF ~Has(ins, inputName)
                   THEN Append(ins, [k |-> inputName,
                                     v |-> IF schema[i].v.hasDefault
                                           THEN schema[i].v.default ELSE Undefined])
                   ELSE ins
       IN  applyDefaultInputsFrom(schema, next, i + 1)

\* the values `!value` holds of
Falsy(v) ==
  \/ v.kind \in {"null", "undefined", "NaN"}
  \/ v \in {Str(<<>>), Bool(<<"f", "a", "l", "s", "e">>), Num(<<"0">>)}

\* a variant of applyDefaultInputs that tests `!this.inputs[inputName]`, not `in`
RECURSIVE applyDefaultInputsIfFalsyFrom(_, _, _)
applyDefaultInputsIfFalsyFrom(schema, ins, i) ==
  IF i > Len(schema) THEN ins
  ELSE LET inputName == schema[i].k
           value == IF schema[i].v.hasDefault THEN schema[i].v.default ELSE Undefined
           next == IF ~Has(ins, inputName) THEN Append(ins, [k |-> inputName, v |-> value])
                   ELSE IF Falsy(Get(ins, inputName))
                        THEN [j \in 1..Len(ins) |->
                                IF ins[j].k = inputName THEN [k |-> inputName, v |-> value]
                                ELSE ins[j]]
                        ELSE ins
       IN  applyDefaultInputsIfFalsyFrom(schema, next, i + 1)

applyDefaultInputsIfFalsy(schema, ins) == applyDefaultInputsIfFalsyFrom(schema, ins, 1)

applyDefaultInputs(schema, ins) == applyDefaultInputsFrom(schema, ins, 1)

RECURSIVE copyEntries(_, _, _, _, _)
copyEntries(errs, subName, category, entries, j) ==
  IF j > Len(entries) THEN errs
  ELSE copyEntries(addInputError(errs, category, subName \o ":" \o entries[j][1], entries[j][2]),
                   subName, category, entries, j + 1)

RECURSIVE copyErrorsFrom(_, _, _, _)
copyErrorsFrom(errs, subName, subErrors, i) ==
  IF i > Len(subErrors) THEN errs
  ELSE copyErrorsFrom(copyEntries(errs, subName, subErrors[i].category, subErrors[i].entries, 1),
                      subName, subErrors, i + 1)

\* a variant of copyErrors that keeps the child's symbolic keys as they are
RECURSIVE copyEntriesUnprefixed(_, _, _, _)
copyEntriesUnprefixed(errs, category, entries, j) ==
  IF j > Len(entries) THEN errs
  ELSE copyEntriesUnprefixed(addInputError(errs, category, entries[j][1], entries[j][2]),
                             category, entries, j + 1)

RECURSIVE copyErrorsUnprefixedFrom(_, _, _)
copyErrorsUnprefixedFrom(errs, subErrors, i) ==
  IF i > Len(subErrors) THEN errs
  ELSE copyErrorsUnprefixedFrom(
         copyEntriesUnprefixed(errs, subErrors[i].category, subErrors[i].entries, 1),
         subErrors, i + 1)

copyErrorsUnprefixed(errs, subName, subErrors) == copyErrorsUnprefixedFrom(errs, subErrors, 1)

copyErrors(errs, subName, subErrors) == copyErrorsFrom(errs, subName, subErrors, 1)

(***************************************************************************)
(* The universe the model draws classes and inputs from.                   *)
(***************************************************************************)
Ids == {"a", "b"}
\* "a" is the command the caller creates; "b" is the sub-command it may run
Top == "a"
Child == "b"

VAda == Str(<<"A", "d", "a">>)
VSpace == Str(<<" ">>)
VOpen == Str(<<"o", "p", "e", "n">>)
VClosed == Str(<<"c", "l", "o", "s", "e", "d">>)
VDflt == Str(<<"d", "f", "l", "t">>)
VDone == Str(<<"d", "o", "n", "e">>)
VEmpty == Str(<<>>)
VFalse == Bool(<<"f", "a", "l", "s", "e">>)
VZero == Num(<<"0">>)

Descriptor(type, required, allowBlank, hasDefault, default, oneOf) ==
  [type |-> type, required |-> required, allowBlank |-> allowBlank,
   hasDefault |-> hasDefault, default |-> IF hasDefault THEN default ELSE Undefined,
   oneOf |-> oneOf]

StringDescriptors ==
  {Descriptor("string", r, b, d, VDflt, <<>>) : r \in BOOLEAN, b \in BOOLEAN, d \in BOOLEAN}

EnumDescriptors ==
  {Descriptor("enum", r, b, d, VOpen, <<VOpen, VClosed>>) :
     r \in BOOLEAN, b \in BOOLEAN, d \in BOOLEAN}

\* every schema over the keys name (a string) and status (an enum), in that order
Schemas ==
  LET names == {<<>>} \cup {<<[k |-> "name", v |-> d]>> : d \in StringDescriptors}
      statuses == {<<>>} \cup {<<[k |-> "status", v |-> d]>> : d \in EnumDescriptors}
  IN  {n \o s : n \in names, s \in statuses}

InputKeys == {"name", "status", "bogus"}
InputValues == {VAda, VOpen, VSpace, Null, Undefined}

\* every inputs object of at most n keys, in every key order
InputsUpTo(n) ==
  LET entries == {[k |-> key, v |-> val] : key \in InputKeys, val \in InputValues}
      seqs == UNION {[1..m -> entries] : m \in 0..n}
  IN  {q \in seqs : \A i, j \in 1..Len(q) : i # j => q[i].k # q[j].k}

\* values of every kind: blank and non-blank strings, arrays and objects, NaN, and
\* the falsy values false, 0 and ''
WideValues ==
  InputValues \cup {VEmpty, NaN, Arr(<<>>), Arr(<<"x">>), Obj(<<>>), Obj(<<"k">>), VFalse, VZero}

WideInputsUpTo(n) ==
  LET entries == {[k |-> key, v |-> val] : key \in InputKeys, val \in WideValues}
      seqs == UNION {[1..m -> entries] : m \in 0..n}
  IN  {q \in seqs : \A i, j \in 1..Len(q) : i # j => q[i].k # q[j].k}

\* a command class; schemaAt tells where the schema is attached: to the type
\* ("static") or to each instance ("instance")
Class(name, schema) == [name |-> name, schema |-> schema, schemaAt |-> "static"]
InstanceSchemaClass(name, schema) == [Class(name, schema) EXCEPT !.schemaAt = "instance"]
\* a class that declares no schema at all: this.constructor.schema is undefined
UndeclaredClass(name) == [Class(name, <<>>) EXCEPT !.schemaAt = "none"]
NoClass == Class("", <<>>)

RequiredName == <<[k |-> "name", v |-> Descriptor("string", TRUE, FALSE, FALSE, Undefined, <<>>)]>>
StatusWithDefault ==
  <<[k |-> "status", v |-> Descriptor("enum", FALSE, FALSE, TRUE, VOpen, <<VOpen, VClosed>>)]>>
RequiredField1 ==
  <<[k |-> "field1", v |-> Descriptor("string", TRUE, FALSE, FALSE, Undefined, <<>>)]>>

\* the classes and inputs of the lifecycle specification
MainClasses == {Class("Main", <<>>), Class("Main", RequiredName \o StatusWithDefault)}
MainInputs == {<<>>, <<[k |-> "name", v |-> VAda]>>, <<[k |-> "name", v |-> VSpace]>>,
               <<[k |-> "bogus", v |-> VAda]>>}
\* classes that declare `schema = ...` as an instance field: empty and non-empty
NonStaticClasses == {InstanceSchemaClass("Main", <<>>), InstanceSchemaClass("Main", RequiredName)}
UndeclaredClasses == {UndeclaredClass("Main")}
ChildClasses == {Class("Foo", RequiredField1)}
ChildInputs == {<<>>, <<[k |-> "field1", v |-> VAda]>>}

\* what the hooks of the modelled classes may do
HookInputErrors == {<<"name", INVALID, "invalid value!">>}
HookRuntimeErrors == {<<NOT_FOUND, "record not found">>}
ThrownMessages == {"boom"}
ReturnValues == {VDone, Undefined}

NoExc == [kind |-> "none", message |-> ""]
HaltExecution == [kind |-> "halt", message |-> ""]
Error(message) == [kind |-> "error", message |-> message]
\* the message of the TypeError of Object.keys(undefined)
TypeErrorMessage == "Cannot convert undefined or null to object"
\* the dedicated configuration error
CommandWithNonStaticSchemaError == [kind |-> "CommandWithNonStaticSchemaError", message |-> ""]

NoOp == [hook |-> "none", op |-> "none"]

(***************************************************************************)
(* State.  Every variable is a function of the instance.                   *)
(*   pc       where the instance's run() is: "none" (not constructed),     *)
(*            "new", "validateInputs", "applyDefaultInputs", "validate",   *)
(*            "execute", "awaitSub", "catch", "finally", and, once run()   *)
(*            has left, "returned" or "raised"; "rejected" when run()      *)
(*            refused the class                                            *)
(*   exc      the exception propagating out of the try block of run()      *)
(*   steps    statements the running hook has executed                     *)
(*   last     the last statement a hook executed (history)                 *)
(*   caught   what the catch clause of run() received (history)            *)
(*   sub      the mode of the runSubCommand call the instance made         *)
(*   fatal    how often run() raised 'Cannot run a command twice'          *)
(***************************************************************************)
\* new Command(inputs) for the caller's command; the sub-command is not constructed yet
Init0(class, ins) ==
  /\ cls = [i \in Ids |-> IF i = Top THEN class ELSE NoClass]
  /\ rawInputs = [i \in Ids |-> IF i = Top THEN ins ELSE <<>>]
  /\ inputs = [i \in Ids |-> IF i = Top THEN ins ELSE <<>>]
  /\ started = [i \in Ids |-> FALSE]
  /\ completed = [i \in Ids |-> FALSE]
  /\ result = [i \in Ids |-> Null]
  /\ errors = [i \in Ids |-> <<>>]
  /\ pc = [i \in Ids |-> IF i = Top THEN "new" ELSE "none"]
  /\ exc = [i \in Ids |-> NoExc]
  /\ steps = [i \in Ids |-> 0]
  /\ last = [i \in Ids |-> NoOp]
  /\ caught = [i \in Ids |-> "none"]
  /\ sub = [i \in Ids |-> "none"]
  /\ fatal = [i \in Ids |-> 0]

\* a constructor that wraps the caller's object itself: a write to the working inputs
\* is a write to the caller's object
callerInputsShared(raw, working) == working

\* what the object the caller supplied holds once the working inputs were written:
\* the constructor made the working inputs a deep clone, so the write is not seen
callerInputsAfterWrite(raw, working) == raw

Init ==
  \E class \in MainClasses \cup NonStaticClasses \cup UndeclaredClasses, ins \in MainInputs :
    Init0(class, ins)

InitV == \E schema \in Schemas, ins \in InputsUpTo(MaxInputs) : Init0(Class("Main", schema), ins)

\* the same classes as InitV, run with inputs of every kind of value
InitW ==
  \E schema \in Schemas, ins \in WideInputsUpTo(MaxWideInputs) :
    Init0(Class("Main", schema), ins)

schemaOf(id) == cls[id].schema

\* the points at which other code can run while run() is suspended or has left
CallPoints == {"validate", "execute", "awaitSub", "returned", "raised"}

\* a variant of SchemaIsStatic that tolerates a schema attached to the instance
SchemaTolerated(id) == TRUE

\* the schema of the instance's class is attached to the type
SchemaIsStatic(id) == cls[id].schemaAt # "instance"

\* run() of a command whose schema is an instance field: the configuration error
\* is raised before the run starts
RejectNonStaticSchema(id) ==
  /\ pc[id] = "new"
  /\ ~SchemaIsStatic(id)
  /\ pc' = [pc EXCEPT ![id] = "rejected"]
  /\ exc' = [exc EXCEPT ![id] = CommandWithNonStaticSchemaError]
  /\ UNCHANGED <<cls, rawInputs, inputs, started, completed, result, errors, steps, last,
                 caught, sub, fatal>>

\* run(), first invocation: the guard and `this._started = true`
Run(id) ==
  /\ pc[id] = "new"
  /\ SchemaIsStatic(id)
  /\ ~started[id]
  /\ started' = [started EXCEPT ![id] = TRUE]
  /\ pc' = [pc EXCEPT ![id] = "validateInputs"]
  /\ UNCHANGED <<cls, rawInputs, inputs, completed, result, errors, exc, steps, last,
                 caught, sub, fatal>>

\* a variant of RunTwice that tests _started inside the try block
RunTwiceInsideTry(id) ==
  /\ started[id]
  /\ pc[id] \in CallPoints
  /\ fatal[id] < MaxReruns
  /\ fatal' = [fatal EXCEPT ![id] = @ + 1]
  /\ errors' = [errors EXCEPT ![id] = addUnknownError(@, "Cannot run a command twice")]
  /\ completed' = [completed EXCEPT ![id] = TRUE]
  /\ UNCHANGED <<cls, rawInputs, inputs, started, result, pc, exc, steps, last, caught, sub>>

\* run(), any later invocation: `if (this._started) throw`, before the try block
RunTwice(id) ==
  /\ started[id]
  /\ pc[id] \in CallPoints
  /\ fatal[id] < MaxReruns
  /\ fatal' = [fatal EXCEPT ![id] = @ + 1]
  /\ UNCHANGED <<cls, rawInputs, inputs, started, completed, result, errors, pc, exc,
                 steps, last, caught, sub>>

\* this.schema is an object: the class, or one it extends, has a static schema
SchemaDeclared(id) == cls[id].schemaAt # "none"

\* validateInputs(): the four checks, then haltIfHasErrors(); when this.schema is
\* undefined, the first statement, Object.keys(this.schema), throws a TypeError
ValidateInputs(id) ==
  /\ pc[id] = "validateInputs"
  /\ IF ~SchemaDeclared(id)
     THEN /\ exc' = [exc EXCEPT ![id] = Error(TypeErrorMessage)]
          /\ pc' = [pc EXCEPT ![id] = "catch"]
          /\ errors' = errors
     ELSE LET errs == validateInputsChecks(schemaOf(id), inputs[id], errors[id])
          IN  /\ errors' = [errors EXCEPT ![id] = errs]
              /\ IF hasErrors(errs)
                 THEN /\ exc' = [exc EXCEPT ![id] = HaltExecution]
                      /\ pc' = [pc EXCEPT ![id] = "catch"]
                 ELSE /\ exc' = exc
                      /\ pc' = [pc EXCEPT ![id] = "applyDefaultInputs"]
  /\ UNCHANGED <<cls, rawInputs, inputs, started, completed, result, steps, last, caught,
                 sub, fatal>>

\* a constructor that wraps the caller's object itself, called with one object for
\* several commands: they all see a write to the working inputs of one of them
InputsWrittenByAnyHolder(id) == {i \in Ids : pc[i] # "none" /\ rawInputs[i] = rawInputs[id]}

\* the instances whose working inputs are the object that instance id writes to:
\* the constructor gave each instance a clone of its own
InputsWrittenBy(id) == {id}

\* a variant of ApplyDefaultInputs for a run() that calls the validate hook right
\* after validateInputs (as the first variant in src/src/command.js does)
ApplyDefaultInputsSkipped(id) ==
  /\ pc[id] = "applyDefaultInputs"
  /\ pc' = [pc EXCEPT ![id] = "validate"]
  /\ steps' = [steps EXCEPT ![id] = 0]
  /\ UNCHANGED <<cls, rawInputs, inputs, started, completed, result, errors, exc, last,
                 caught, sub, fatal>>

\* applyDefaultInputs(), then _validate() calls the validate hook
ApplyDefaultInputs(id) ==
  /\ pc[id] = "applyDefaultInputs"
  /\ inputs' = [i \in Ids |->
                  IF i \in InputsWrittenBy(id)
                  THEN applyDefaultInputs(schemaOf(id), inputs[id]) ELSE inputs[i]]
  /\ rawInputs' = [rawInputs EXCEPT ![id] = callerInputsAfterWrite(@, inputs'[id])]
  /\ pc' = [pc EXCEPT ![id] = "validate"]
  /\ steps' = [steps EXCEPT ![id] = 0]
  /\ UNCHANGED <<cls, started, completed, result, errors, exc, last, caught, sub, fatal>>

\* a hook calls addInputError(input, errorKey, message): recorded, no halt
HookAddInputError(id) ==
  /\ pc[id] \in {"validate", "execute"}
  /\ steps[id] < MaxHookSteps
  /\ \E e \in HookInputErrors :
       errors' = [errors EXCEPT ![id] = addInputError(@, e[1], e[2], e[3])]
  /\ steps' = [steps EXCEPT ![id] = @ + 1]
  /\ last' = [last EXCEPT ![id] = [hook |-> pc[id], op |-> "addInputError"]]
  /\ UNCHANGED <<cls, rawInputs, inputs, started, completed, result, pc, exc, caught,
                 sub, fatal>>

\* a variant of HookAddRuntimeError that records and does not halt
\* (addRuntimeError as the first variant in src/src/command.js has it)
HookAddRuntimeErrorNoHalt(id) ==
  /\ pc[id] \in {"validate", "execute"}
  /\ steps[id] < MaxHookSteps
  /\ \E e \in HookRuntimeErrors :
       errors' = [errors EXCEPT ![id] = addRuntimeError(@, e[1], e[2])]
  /\ steps' = [steps EXCEPT ![id] = @ + 1]
  /\ last' = [last EXCEPT ![id] = [hook |-> pc[id], op |-> "addRuntimeError"]]
  /\ UNCHANGED <<cls, rawInputs, inputs, started, completed, result, pc, exc, caught,
                 sub, fatal>>

\* a variant of HookAddRuntimeError that halts and records nothing
HookAddRuntimeErrorHaltOnly(id) ==
  /\ pc[id] \in {"validate", "execute"}
  /\ exc' = [exc EXCEPT ![id] = HaltExecution]
  /\ pc' = [pc EXCEPT ![id] = "catch"]
  /\ last' = [last EXCEPT ![id] = [hook |-> pc[id], op |-> "addRuntimeError"]]
  /\ UNCHANGED <<cls, rawInputs, inputs, started, completed, result, errors, steps,
                 caught, sub, fatal>>

\* a hook calls addRuntimeError(errorKey, message): recorded, then halt()
HookAddRuntimeError(id) ==
  /\ pc[id] \in {"validate", "execute"}
  /\ \E e \in HookRuntimeErrors :
       errors' = [errors EXCEPT ![id] = addRuntimeError(@, e[1], e[2])]
  /\ exc' = [exc EXCEPT ![id] = HaltExecution]
  /\ pc' = [pc EXCEPT ![id] = "catch"]
  /\ last' = [last EXCEPT ![id] = [hook |-> pc[id], op |-> "addRuntimeError"]]
  /\ UNCHANGED <<cls, rawInputs, inputs, started, completed, result, steps, caught,
                 sub, fatal>>

\* a variant of HookAddInputErrorAndHalt that records and does not halt
HookAddInputErrorAndGoOn(id) ==
  /\ pc[id] \in {"validate", "execute"}
  /\ steps[id] < MaxHookSteps
  /\ \E e \in HookInputErrors :
       errors' = [errors EXCEPT ![id] = addInputError(@, e[1], e[2], e[3])]
  /\ steps' = [steps EXCEPT ![id] = @ + 1]
  /\ last' = [last EXCEPT ![id] = [hook |-> pc[id], op |-> "addInputErrorAndHalt"]]
  /\ UNCHANGED <<cls, rawInputs, inputs, started, completed, result, pc, exc, caught,
                 sub, fatal>>

\* a hook calls addInputErrorAndHalt(input, errorKey, message): recorded under the
\* input's category, then halt()
HookAddInputErrorAndHalt(id) ==
  /\ pc[id] \in {"validate", "execute"}
  /\ \E e \in HookInputErrors :
       errors' = [errors EXCEPT ![id] = addInputError(@, e[1], e[2], e[3])]
  /\ exc' = [exc EXCEPT ![id] = HaltExecution]
  /\ pc' = [pc EXCEPT ![id] = "catch"]
  /\ last' = [last EXCEPT ![id] = [hook |-> pc[id], op |-> "addInputErrorAndHalt"]]
  /\ UNCHANGED <<cls, rawInputs, inputs, started, completed, result, steps, caught,
                 sub, fatal>>

\* a hook throws an exception of its own
HookThrow(id) ==
  /\ pc[id] \in {"validate", "execute"}
  /\ \E m \in ThrownMessages : exc' = [exc EXCEPT ![id] = Error(m)]
  /\ pc' = [pc EXCEPT ![id] = "catch"]
  /\ last' = [last EXCEPT ![id] = [hook |-> pc[id], op |-> "throw"]]
  /\ UNCHANGED <<cls, rawInputs, inputs, started, completed, result, errors, steps,
                 caught, sub, fatal>>

\* a variant of ValidateReturn without haltIfHasErrors()
ValidateReturnNoHalt(id) ==
  /\ pc[id] = "validate"
  /\ pc' = [pc EXCEPT ![id] = "execute"]
  /\ steps' = [steps EXCEPT ![id] = 0]
  /\ last' = [last EXCEPT ![id] = [hook |-> "validate", op |-> "return"]]
  /\ UNCHANGED <<cls, rawInputs, inputs, started, completed, result, errors, exc,
                 caught, sub, fatal>>

\* _validate(): the validate hook returns, then haltIfHasErrors(); execute() is called
ValidateReturn(id) ==
  /\ pc[id] = "validate"
  /\ IF hasErrors(errors[id])
     THEN /\ exc' = [exc EXCEPT ![id] = HaltExecution]
          /\ pc' = [pc EXCEPT ![id] = "catch"]
          /\ steps' = steps
     ELSE /\ exc' = exc
          /\ pc' = [pc EXCEPT ![id] = "execute"]
          /\ steps' = [steps EXCEPT ![id] = 0]
  /\ last' = [last EXCEPT ![id] = [hook |-> "validate", op |-> "return"]]
  /\ UNCHANGED <<cls, rawInputs, inputs, started, completed, result, errors, caught,
                 sub, fatal>>

\* execute runs a statement that touches neither the outcome nor the pipeline
Operation(id) ==
  /\ pc[id] = "execute"
  /\ steps[id] < MaxHookSteps
  /\ steps' = [steps EXCEPT ![id] = @ + 1]
  /\ last' = [last EXCEPT ![id] = [hook |-> "execute", op |-> "operation"]]
  /\ UNCHANGED <<cls, rawInputs, inputs, started, completed, result, errors, pc, exc,
                 caught, sub, fatal>>

\* runSubCommand(CommandClass, inputs, assertSuccess): new CommandClass(inputs), and
\* its run() up to `this._started = true`; the parent then awaits the child
RunSubCommand(id) ==
  /\ id = Top
  /\ pc[id] = "execute"
  /\ steps[id] < MaxHookSteps
  /\ pc[Child] = "none"
  /\ \E class \in ChildClasses, ins \in ChildInputs, assertSuccess \in BOOLEAN :
       /\ cls' = [cls EXCEPT ![Child] = class]
       /\ rawInputs' = [rawInputs EXCEPT ![Child] = ins]
       /\ inputs' = [inputs EXCEPT ![Child] = ins]
       /\ sub' = [sub EXCEPT ![id] = IF assertSuccess THEN "assert" ELSE "outcome"]
  /\ started' = [started EXCEPT ![Child] = TRUE]
  /\ pc' = [pc EXCEPT ![id] = "awaitSub", ![Child] = "validateInputs"]
  /\ steps' = [steps EXCEPT ![id] = @ + 1]
  /\ last' = [last EXCEPT ![id] = [hook |-> "execute", op |-> "runSubCommand"]]
  /\ UNCHANGED <<completed, result, errors, exc, caught, fatal>>

\* a variant of SubCommandReturns that never halts the parent
SubCommandReturnsNoHalt(id) ==
  /\ id = Top
  /\ pc[id] = "awaitSub"
  /\ pc[Child] \in {"returned", "raised"}
  /\ IF pc[Child] = "raised"
     THEN /\ exc' = [exc EXCEPT ![id] = exc[Child]]
          /\ pc' = [pc EXCEPT ![id] = "catch"]
          /\ errors' = errors
     ELSE /\ exc' = exc
          /\ pc' = [pc EXCEPT ![id] = "execute"]
          /\ errors' = IF success(errors[Child]) THEN errors
                       ELSE [errors EXCEPT ![id] = copyErrors(@, cls[Child].name, errors[Child])]
  /\ UNCHANGED <<cls, rawInputs, inputs, started, completed, result, steps, last,
                 caught, sub, fatal>>

\* a variant of SubCommandReturns that copies the child's errors before it lets the
\* child's exception through
SubCommandReturnsCopiesOnRaise(id) ==
  /\ id = Top
  /\ pc[id] = "awaitSub"
  /\ pc[Child] \in {"returned", "raised"}
  /\ IF pc[Child] = "raised"
     THEN /\ exc' = [exc EXCEPT ![id] = exc[Child]]
          /\ pc' = [pc EXCEPT ![id] = "catch"]
          /\ errors' = [errors EXCEPT ![id] = copyErrors(@, cls[Child].name, errors[Child])]
     ELSE IF ~success(errors[Child])
     THEN /\ errors' = [errors EXCEPT ![id] = copyErrors(@, cls[Child].name, errors[Child])]
          /\ IF sub[id] = "assert"
             THEN /\ exc' = [exc EXCEPT ![id] = HaltExecution]
                  /\ pc' = [pc EXCEPT ![id] = "catch"]
             ELSE /\ exc' = exc
                  /\ pc' = [pc EXCEPT ![id] = "execute"]
     ELSE /\ exc' = exc
          /\ pc' = [pc EXCEPT ![id] = "execute"]
          /\ errors' = errors
  /\ UNCHANGED <<cls, rawInputs, inputs, started, completed, result, steps, last,
                 caught, sub, fatal>>

\* runSubCommand resumes when the child's run() has left: the child's exception
\* propagates; a failed child's errors are copied, and assertSuccess halts
SubCommandReturns(id) ==
  /\ id = Top
  /\ pc[id] = "awaitSub"
  /\ pc[Child] \in {"returned", "raised"}
  /\ IF pc[Child] = "raised"
     THEN /\ exc' = [exc EXCEPT ![id] = exc[Child]]
          /\ pc' = [pc EXCEPT ![id] = "catch"]
          /\ errors' = errors
     ELSE IF ~success(errors[Child])
     THEN /\ errors' = [errors EXCEPT ![id] = copyErrors(@, cls[Child].name, errors[Child])]
          /\ IF sub[id] = "assert"
             THEN /\ exc' = [exc EXCEPT ![id] = HaltExecution]
                  /\ pc' = [pc EXCEPT ![id] = "catch"]
             ELSE /\ exc' = exc
                  /\ pc' = [pc EXCEPT ![id] = "execute"]
     ELSE /\ exc' = exc
          /\ pc' = [pc EXCEPT ![id] = "execute"]
          /\ errors' = errors
  /\ UNCHANGED <<cls, rawInputs, inputs, started, completed, result, steps, last,
                 caught, sub, fatal>>

\* what runSubCommand returns to the parent's execute when it does not halt
runSubCommandReturn(id) ==
  IF sub[id] = "assert" THEN result[Child]
  ELSE [success |-> success(errors[Child]), result |-> result[Child], errors |-> errors[Child]]

\* execute returns a value, and run() calls setResult(result)
ExecuteReturn(id) ==
  /\ pc[id] = "execute"
  /\ \E v \in ReturnValues : result' = [result EXCEPT ![id] = setResult(@, v)]
  /\ pc' = [pc EXCEPT ![id] = "finally"]
  /\ last' = [last EXCEPT ![id] = [hook |-> "execute", op |-> "return"]]
  /\ UNCHANGED <<cls, rawInputs, inputs, started, completed, errors, exc, steps,
                 caught, sub, fatal>>

\* a variant of Catch that swallows every exception
CatchSwallowsAll(id) ==
  /\ pc[id] = "catch"
  /\ caught' = [caught EXCEPT ![id] = exc[id].kind]
  /\ errors' = [errors EXCEPT ![id] =
                  IF exc[id].kind = "halt" THEN @ ELSE addUnknownError(@, exc[id].message)]
  /\ exc' = [exc EXCEPT ![id] = NoExc]
  /\ pc' = [pc EXCEPT ![id] = "finally"]
  /\ UNCHANGED <<cls, rawInputs, inputs, started, completed, result, steps, last, sub,
                 fatal>>

\* a variant of Catch that re-raises without recording
\* (the catch clause as the second variant in src/src/command.js has it)
CatchNoRecord(id) ==
  /\ pc[id] = "catch"
  /\ caught' = [caught EXCEPT ![id] = exc[id].kind]
  /\ exc' = [exc EXCEPT ![id] = IF @.kind = "halt" THEN NoExc ELSE @]
  /\ pc' = [pc EXCEPT ![id] = "finally"]
  /\ UNCHANGED <<cls, rawInputs, inputs, started, completed, result, errors, steps, last,
                 sub, fatal>>

\* the catch clause of run(): HaltExecution is swallowed; anything else is
\* recorded with addUnknownError(err.message) and thrown again
Catch(id) ==
  /\ pc[id] = "catch"
  /\ caught' = [caught EXCEPT ![id] = exc[id].kind]
  /\ IF exc[id].kind = "halt"
     THEN /\ exc' = [exc EXCEPT ![id] = NoExc]
          /\ errors' = errors
     ELSE /\ exc' = exc
          /\ errors' = [errors EXCEPT ![id] = addUnknownError(@, exc[id].message)]
  /\ pc' = [pc EXCEPT ![id] = "finally"]
  /\ UNCHANGED <<cls, rawInputs, inputs, started, completed, result, steps, last, sub,
                 fatal>>

\* a variant of Finally that sets _completed only when run() returns
FinallyOnReturnOnly(id) ==
  /\ pc[id] = "finally"
  /\ completed' = [completed EXCEPT ![id] = (exc[id].kind = "none")]
  /\ pc' = [pc EXCEPT ![id] = IF exc[id].kind = "none" THEN "returned" ELSE "raised"]
  /\ UNCHANGED <<cls, rawInputs, inputs, started, result, errors, exc, steps, last,
                 caught, sub, fatal>>

\* the finally clause of run(): `this._completed = true`; then run() returns the
\* outcome or the exception leaves it
Finally(id) ==
  /\ pc[id] = "finally"
  /\ completed' = [completed EXCEPT ![id] = TRUE]
  /\ pc' = [pc EXCEPT ![id] = IF exc[id].kind = "none" THEN "returned" ELSE "raised"]
  /\ UNCHANGED <<cls, rawInputs, inputs, started, result, errors, exc, steps, last,
                 caught, sub, fatal>>

\* the steps of a run that has started
Step(id) ==
  \/ ValidateInputs(id)
  \/ ApplyDefaultInputs(id)
  \/ HookAddInputError(id)
  \/ HookAddRuntimeError(id)
  \/ HookAddInputErrorAndHalt(id)
  \/ HookThrow(id)
  \/ ValidateReturn(id)
  \/ Operation(id)
  \/ RunSubCommand(id)
  \/ SubCommandReturns(id)
  \/ ExecuteReturn(id)
  \/ Catch(id)
  \/ Finally(id)

Next == \E id \in Ids : RejectNonStaticSchema(id) \/ Run(id) \/ RunTwice(id) \/ Step(id)

Spec == Init /\ [][Next]_vars

\* a started run is scheduled until it leaves: hooks and the event loop make progress
FairSpec == Spec /\ WF_vars(\E id \in Ids : Step(id))

\* a class whose validate hook is empty and whose execute only returns a value
NextV ==
  \/ Run(Top)
  \/ ValidateInputs(Top)
  \/ ApplyDefaultInputs(Top)
  \/ ValidateReturn(Top)
  \/ ExecuteReturn(Top)
  \/ Catch(Top)
  \/ Finally(Top)

SpecV == InitV /\ [][NextV]_vars

SpecW == InitW /\ [][NextV]_vars

\* two commands the caller creates, of the same type or of different types, with
\* the same or with different inputs, and runs side by side
PairClasses == {Class("Main", RequiredName \o StatusWithDefault), Class("Other", StatusWithDefault)}
PairInputs == {<<>>, <<[k |-> "name", v |-> VAda]>>}

InitPair ==
  /\ cls \in [Ids -> PairClasses]
  /\ rawInputs \in [Ids -> PairInputs]
  /\ inputs = rawInputs
  /\ started = [i \in Ids |-> FALSE]
  /\ completed = [i \in Ids |-> FALSE]
  /\ result = [i \in Ids |-> Null]
  /\ errors = [i \in Ids |-> <<>>]
  /\ pc = [i \in Ids |-> "new"]
  /\ exc = [i \in Ids |-> NoExc]
  /\ steps = [i \in Ids |-> 0]
  /\ last = [i \in Ids |-> NoOp]
  /\ caught = [i \in Ids |-> "none"]
  /\ sub = [i \in Ids |-> "none"]
  /\ fatal = [i \in Ids |-> 0]

\* the steps of a command that runs no sub-command
NextPair ==
  \E id \in Ids :
    \/ Run(id)
    \/ ValidateInputs(id)
    \/ ApplyDefaultInputs(id)
    \/ HookAddInputError(id)
    \/ HookAddRuntimeError(id)
    \/ HookThrow(id)
    \/ ValidateReturn(id)
    \/ ExecuteReturn(id)
    \/ Catch(id)
    \/ Finally(id)

SpecPair == InitPair /\ [][NextPair]_vars

(***************************************************************************)
(* The accessors of a command, as the caller sees them.                    *)
(***************************************************************************)
Raised(message) == [raised |-> TRUE, message |-> message]
Value(v) == [raised |-> FALSE, value |-> v]

\* get outcome ()
GetOutcome(id) ==
  IF ~completed[id]
  THEN Raised("Cannot access the outcome of a command that has not been run")
  ELSE Value([result |-> result[id], errors |-> errors[id]])

\* get success ()
GetSuccess(id) ==
  IF GetOutcome(id).raised THEN GetOutcome(id) ELSE Value(success(GetOutcome(id).value.errors))

\* a variant of GetResult that reads the outcome field directly
\* (get result as the variants in src/src/command.js have it)
GetResultUnguarded(id) == Value(result[id])

\* get result ()
GetResult(id) ==
  IF GetOutcome(id).raised THEN GetOutcome(id) ELSE Value(GetOutcome(id).value.result)

\* get hasErrors (), which reads the outcome field directly
GetHasErrors(id) == Value(hasErrors(errors[id]))

\* get englishErrors (): the messages of every category, in ledger order
englishErrors(errs) ==
  [i \in 1..Len(errs) |->
     [category |-> errs[i].category,
      messages |-> [j \in 1..Len(errs[i].entries) |-> errs[i].entries[j][2]]]]

\* Object.values(...).flat()
RECURSIVE Flat(_)
Flat(groups) == IF groups = <<>> THEN <<>> ELSE Head(groups).messages \o Flat(Tail(groups))

\* Array.prototype.join(', and ')
RECURSIVE JoinAnd(_)
JoinAnd(messages) ==
  IF messages = <<>> THEN ""
  ELSE IF Len(messages) = 1 THEN messages[1]
  ELSE messages[1] \o ", and " \o JoinAnd(Tail(messages))

\* Array.prototype.join(', ')
RECURSIVE JoinCommaSpace(_)
JoinCommaSpace(messages) ==
  IF messages = <<>> THEN ""
  ELSE IF Len(messages) = 1 THEN messages[1]
  ELSE messages[1] \o ", " \o JoinCommaSpace(Tail(messages))

\* a variant of errorSentence that joins the messages by ', '
errorSentenceCommas(errs) == JoinCommaSpace(Flat(englishErrors(errs))) \o "."

\* Object.values(this.symbolicErrors).flat(): every symbolic key of the ledger
RECURSIVE symbols(_)
symbols(errs) ==
  IF errs = <<>> THEN <<>>
  ELSE [j \in 1..Len(Head(errs).entries) |-> Head(errs).entries[j][1]] \o symbols(Tail(errs))

\* a variant of notFoundError that looks past the namespace of a copied key
notFoundErrorAnyNamespace(errs) ==
  \E i \in 1..Len(symbols(errs)) : symbols(errs)[i] \in {NOT_FOUND, "Foo:" \o NOT_FOUND}

\* get notFoundError ()
notFoundError(errs) == \E i \in 1..Len(symbols(errs)) : symbols(errs)[i] = NOT_FOUND

\* get errorSentence ()
errorSentence(errs) == JoinAnd(Flat(englishErrors(errs))) \o "."

\* a variant of runAndAssertSuccess that reports every failure by the error sentence
runAndAssertSuccessWrapsAll(id) ==
  IF pc[id] = "returned" /\ success(errors[id]) THEN Value(result[id])
  ELSE Raised(errorSentence(errors[id]))

\* runAndAssertSuccess (), once its `await this.run()` has left: an exception of
\* run passes through; otherwise the result is returned or the sentence raised
runAndAssertSuccess(id) ==
  IF pc[id] = "raised" THEN Raised(exc[id].message)
  ELSE IF success(errors[id]) THEN Value(result[id])
  ELSE Raised(errorSentence(errors[id]))

(***************************************************************************)
(* Properties.                                                             *)
(***************************************************************************)
Live == {id \in Ids : pc[id] # "none"}
Left(id) == pc[id] \in {"returned", "raised"}
LastEntry(errs, category) == EntriesOf(errs, category)[Len(EntriesOf(errs, category))]
\* the structural checks reject the inputs the instance was constructed with
StructurallyInvalid(id) ==
  /\ cls[id].schemaAt # "none"
  /\ hasErrors(validateInputsChecks(schemaOf(id), rawInputs[id], <<>>))

\* C1: a second invocation of run on an instance, after the first left or while the
\* first is suspended in a hook, raises 'Cannot run a command twice' and changes
\* nothing of the instance: errors, result, completed, the working inputs and the
\* position of the first run stay as they were; validation only ever starts in a
\* run that had not started, and started is never reset.
C1_SecondRunRecordsNothing ==
  [][\A id \in Ids :
       /\ fatal'[id] # fatal[id] =>
            /\ started[id]
            /\ fatal'[id] = fatal[id] + 1
            /\ errors'[id] = errors[id]
            /\ result'[id] = result[id]
            /\ completed'[id] = completed[id]
            /\ inputs'[id] = inputs[id]
            /\ pc'[id] = pc[id]
       /\ (pc'[id] = "validateInputs" /\ pc[id] # "validateInputs") => ~started[id]
       /\ started[id] => started'[id]]_vars

\* C1 witness: a second invocation raised while the first run is suspended in a hook
C1_Witness ==
  \E id \in Ids : fatal[id] > 0 /\ pc[id] \in {"validate", "execute", "awaitSub"}
                  /\ ~completed[id]

\* C2 (as claimed): whenever the result is set, the error ledger is empty
C2_ResultImpliesNoErrors ==
  \A id \in Ids : result[id] # Null => errors[id] = <<>>

\* C3: once execute has called addRuntimeError, the error is the last entry of the
\* runtime category, the run is past execute for good (no later statement of execute
\* runs), the result stays unset, and the run returns an unsuccessful outcome
\* without raising.
C3_RuntimeErrorHaltsExecute ==
  \A id \in Ids :
    last[id] = [hook |-> "execute", op |-> "addRuntimeError"] =>
      /\ pc[id] \in {"catch", "finally", "returned"}
      /\ HasCategory(errors[id], RUNTIME)
      /\ \E e \in HookRuntimeErrors : LastEntry(errors[id], RUNTIME) = e
      /\ result[id] = Null
      /\ exc[id].kind \in {"halt", "none"}
      /\ pc[id] = "returned" => completed[id] /\ ~success(errors[id])

\* C3 witness: execute ran a statement, then addRuntimeError, and the run returned
C3_Witness ==
  /\ last[Top] = [hook |-> "execute", op |-> "addRuntimeError"]
  /\ steps[Top] > 0
  /\ pc[Top] = "returned"

\* C4: HaltExecution never leaves run: it is pending only until the catch clause;
\* a run in which a hook called addRuntimeError, or whose inputs fail the structural
\* checks, returns a failed outcome and raises nothing; what run raises is an error
\* the catch clause received, and a run that returns swallowed nothing but a halt.
C4_HaltNeverReachesCaller ==
  \A id \in Ids :
    /\ exc[id].kind = "halt" => pc[id] = "catch"
    /\ pc[id] = "raised" => exc[id].kind = "error" /\ caught[id] = "error"
    /\ pc[id] = "returned" => exc[id].kind = "none" /\ caught[id] \in {"none", "halt"}
    /\ (Left(id) /\ (last[id].op = "addRuntimeError" \/ StructurallyInvalid(id))) =>
         /\ pc[id] = "returned"
         /\ caught[id] = "halt"
         /\ ~success(errors[id])

\* C4 witness: the validate hook called addRuntimeError and the run returned
C4_Witness ==
  /\ pc[Top] = "returned"
  /\ caught[Top] = "halt"
  /\ last[Top] = [hook |-> "validate", op |-> "addRuntimeError"]

\* C5: an exception other than the halt that reaches the catch clause of run is
\* recorded as the last entry of the runtime category, with key UNKNOWN and its
\* message, and keeps propagating: the run raises it, the outcome is unsuccessful
\* and the result is unset.
C5_UnknownErrorRecordedAndRaised ==
  \A id \in Ids :
    /\ caught[id] = "error" =>
         /\ pc[id] \in {"finally", "raised"}
         /\ exc[id].kind = "error"
         /\ HasCategory(errors[id], RUNTIME)
         /\ LastEntry(errors[id], RUNTIME) = <<UNKNOWN, exc[id].message>>
         /\ ~success(errors[id])
         /\ result[id] = Null
    /\ (Left(id) /\ last[id].op = "throw") => pc[id] = "raised" /\ caught[id] = "error"

\* C5 witness: execute threw after an earlier statement, and the run raised it
C5_Witness ==
  /\ pc[Top] = "raised"
  /\ last[Top] = [hook |-> "execute", op |-> "throw"]
  /\ steps[Top] > 0

\* C6: every run that has started reaches completed = true, whichever way it
\* leaves: a run that returned or raised has completed set and its outcome
\* accessor returns the outcome.
C6_StartedRunCompletes ==
  \A id \in Ids :
    /\ started[id] ~> completed[id]
    /\ [](Left(id) => completed[id] /\ ~GetOutcome(id).raised)

\* C6 witness: a run raised an unexpected exception and is completed
C6_Witness ==
  \E id \in Ids : pc[id] = "raised" /\ exc[id].kind = "error" /\ completed[id]

\* C7: while completed is false, before run and during it, the accessors outcome,
\* success and result of a command raise instead of returning a value.
C7_NoReadBeforeCompleted ==
  \A id \in Live :
    ~completed[id] =>
      /\ GetOutcome(id).raised
      /\ GetSuccess(id).raised
      /\ GetResult(id).raised

\* C7 witness: a run is inside execute with an error already in its ledger
C7_Witness ==
  \E id \in Live : ~completed[id] /\ pc[id] = "execute" /\ hasErrors(errors[id])

\* C8: the validate hook starts only with an empty ledger, and so does execute: a
\* run whose inputs fail the structural checks runs no hook statement at all, and a
\* run whose validate hook recorded an error never enters execute.
C8_ExecuteOnlyWithoutErrors ==
  \A id \in Live :
    /\ (pc[id] \in {"validate", "execute"} /\ steps[id] = 0) => errors[id] = <<>>
    /\ StructurallyInvalid(id) =>
         last[id] = NoOp /\ pc[id] \notin {"applyDefaultInputs", "validate", "execute", "awaitSub"}
    /\ last[id].hook = "validate" /\ hasErrors(errors[id]) =>
         pc[id] \notin {"execute", "awaitSub"}

\* C8 witness: the validate hook recorded an input error and returned; the run
\* returned without entering execute
C8_Witness ==
  /\ pc[Top] = "returned"
  /\ last[Top] = [hook |-> "validate", op |-> "return"]
  /\ hasErrors(errors[Top])

StructuralKinds == {UNSUPPORTED, BLANK, MISSING, INVALID}

\* the structural kinds that occur as symbolic keys in a ledger
KindsOf(errs) ==
  {kind \in StructuralKinds :
     \E i \in 1..Len(errs) : \E j \in 1..Len(errs[i].entries) : errs[i].entries[j][1] = kind}

HasEntryOfKind(errs, category, kind) ==
  \E j \in 1..Len(EntriesOf(errs, category)) : EntriesOf(errs, category)[j][1] = kind

\* C9 (as claimed): the ledger of a completed run holds errors of at most one of
\* the kinds UNSUPPORTED, BLANK, MISSING, INVALID
C9_AtMostOneKind ==
  \A id \in Live : completed[id] => Cardinality(KindsOf(errors[id])) <= 1

\* C9 (amended): validateInputs runs all four checks, in the order supported, blank,
\* required, enums, whatever the earlier ones recorded: every category of the ledger
\* is what the four checks each record on their own, concatenated in that order, and
\* only after the fourth does a non-empty ledger halt the run, before any hook.
C9_AllFourChecksRunInOrder ==
  (pc[Top] \notin {"new", "validateInputs"}) =>
    LET schema == schemaOf(Top)
        ins == rawInputs[Top]
        S == validateSupportedInputs(schema, ins, <<>>)
        B == validateBlankInputs(schema, ins, <<>>)
        R == validateRequiredInputs(schema, ins, <<>>)
        E == validateEnums(schema, ins, <<>>)
    IN  /\ \A i \in 1..Len(errors[Top]) : errors[Top][i].category \in InputKeys
        /\ \A c \in InputKeys :
             EntriesOf(errors[Top], c) =
               EntriesOf(S, c) \o EntriesOf(B, c) \o EntriesOf(R, c) \o EntriesOf(E, c)
        /\ hasErrors(errors[Top]) =>
             /\ pc[Top] \in {"catch", "finally", "returned"}
             /\ last[Top] = NoOp
             /\ result[Top] = Null

\* C9 witness: a completed run whose ledger holds an UNSUPPORTED and a MISSING error
C9_Witness ==
  /\ pc[Top] = "returned"
  /\ {UNSUPPORTED, MISSING} \subseteq KindsOf(errors[Top])

\* C10: after a completed run, every supplied key that the schema does not declare
\* has an UNSUPPORTED error under the category of its name and the outcome is
\* unsuccessful; a key of the schema, and a key that was not supplied, has none.
C10_EveryUnknownKeyReported ==
  Left(Top) =>
    \A key \in InputKeys :
      IF Has(rawInputs[Top], key) /\ ~Has(schemaOf(Top), key)
      THEN /\ ~success(errors[Top])
           /\ pc[Top] = "returned"
           /\ \E j \in 1..Len(EntriesOf(errors[Top], key)) :
                EntriesOf(errors[Top], key)[j] =
                  <<UNSUPPORTED, key \o " is not a supported input">>
      ELSE ~HasEntryOfKind(errors[Top], key, UNSUPPORTED)

\* C10 witness: two supplied keys are unknown to the schema and both are reported
C10_Witness ==
  /\ Left(Top)
  /\ Cardinality({key \in InputKeys :
                    /\ Has(rawInputs[Top], key)
                    /\ ~Has(schemaOf(Top), key)
                    /\ HasEntryOfKind(errors[Top], key, UNSUPPORTED)}) = 2

HasEntry(errs, category, entry) ==
  \E j \in 1..Len(EntriesOf(errs, category)) : EntriesOf(errs, category)[j] = entry

\* the descriptor the schema declares for a key
DescriptorOf(schema, key) == Get(schema, key)

\* C11 (as claimed): after a run, a required key that was not supplied has a MISSING
\* error and the outcome is unsuccessful, default or not; a required key that was
\* supplied blank has a BLANK error and no MISSING error; a non-required key that
\* was not supplied has no MISSING error.
C11_RequiredBlankAlwaysBlankError ==
  Left(Top) =>
    \A key \in KeysOf(schemaOf(Top)) :
      LET d == DescriptorOf(schemaOf(Top), key)
          supplied == Has(rawInputs[Top], key)
      IN  /\ (d.required /\ ~supplied) =>
                /\ ~success(errors[Top])
                /\ HasEntry(errors[Top], key, <<MISSING, key \o " is missing">>)
          /\ (d.required /\ supplied /\ isBlank(Get(rawInputs[Top], key))) =>
                /\ HasEntryOfKind(errors[Top], key, BLANK)
                /\ ~HasEntryOfKind(errors[Top], key, MISSING)
          /\ (~d.required /\ ~supplied) => ~HasEntryOfKind(errors[Top], key, MISSING)

\* C11 (amended): after a run, a required key that was not supplied has a MISSING
\* error and the outcome is unsuccessful, default or not; a key that was supplied,
\* blank or not, has no MISSING error, and a required key supplied blank has a BLANK
\* error exactly when its entry does not set allowBlank; a non-required key that was
\* not supplied has no MISSING error.
C11_MissingIffRequiredAndAbsent ==
  Left(Top) =>
    \A key \in KeysOf(schemaOf(Top)) :
      LET d == DescriptorOf(schemaOf(Top), key)
          supplied == Has(rawInputs[Top], key)
      IN  /\ (d.required /\ ~supplied) =>
                /\ ~success(errors[Top])
                /\ pc[Top] = "returned"
                /\ HasEntry(errors[Top], key, <<MISSING, key \o " is missing">>)
          /\ supplied => ~HasEntryOfKind(errors[Top], key, MISSING)
          /\ (d.required /\ supplied /\ isBlank(Get(rawInputs[Top], key))) =>
                (HasEntryOfKind(errors[Top], key, BLANK) <=> ~d.allowBlank)
          /\ (~d.required /\ ~supplied) => ~HasEntryOfKind(errors[Top], key, MISSING)

\* C11 witness: a run left with a MISSING error for a required key that has a default,
\* while another required key, supplied blank, has a BLANK error
C11_Witness ==
  /\ Left(Top)
  /\ Has(schemaOf(Top), "status")
  /\ DescriptorOf(schemaOf(Top), "status").required
  /\ DescriptorOf(schemaOf(Top), "status").hasDefault
  /\ ~Has(rawInputs[Top], "status")
  /\ HasEntryOfKind(errors[Top], "status", MISSING)
  /\ Has(rawInputs[Top], "name")
  /\ HasEntryOfKind(errors[Top], "name", BLANK)

\* the values the specification lists as blank: null, undefined, a string that is
\* empty or only whitespace, an empty sequence, an empty mapping
ListedBlank(v) ==
  \/ v \in {Null, Undefined}
  \/ v.kind = "string" /\ {v.chars[i] : i \in 1..Len(v.chars)} \subseteq WhiteSpace
  \/ v.kind \in {"array", "object"} /\ Len(v.chars) = 0

EnumKeys(schema) == {key \in KeysOf(schema) : Get(schema, key).type = "enum"}

\* the value of a supplied key is one of the permitted values
Permitted(schema, ins, key) ==
  \E i \in 1..Len(Get(schema, key).oneOf) : Get(schema, key).oneOf[i] = Get(ins, key)

\* C13 (as claimed): after a run, an enum key has an INVALID error if and only if it
\* was supplied with a value that is not a permitted one, a supplied null or
\* undefined included.
C13_InvalidIffNotPermitted ==
  Left(Top) =>
    \A key \in EnumKeys(schemaOf(Top)) :
      HasEntryOfKind(errors[Top], key, INVALID) <=>
        /\ Has(rawInputs[Top], key)
        /\ ~Permitted(schemaOf(Top), rawInputs[Top], key)

\* C13 (amended): after a run, an enum key has an INVALID error if and only if it was
\* supplied with a value that is neither undefined nor a permitted one (a supplied
\* null has one, a supplied undefined has none); the message names the value and
\* lists the permitted values in their declared order; a key that was not supplied
\* has no INVALID error, and validation raises nothing.
C13_InvalidIffDefinedAndNotPermitted ==
  Left(Top) =>
    /\ pc[Top] = "returned"
    /\ \A key \in EnumKeys(schemaOf(Top)) :
         /\ HasEntryOfKind(errors[Top], key, INVALID) <=>
              /\ Has(rawInputs[Top], key)
              /\ Get(rawInputs[Top], key) # Undefined
              /\ ~Permitted(schemaOf(Top), rawInputs[Top], key)
         /\ HasEntryOfKind(errors[Top], key, INVALID) =>
              /\ ~success(errors[Top])
              /\ HasEntry(errors[Top], key,
                   <<INVALID, StringOf(Get(rawInputs[Top], key))
                                \o " received but must be one of open, closed">>)

\* C13 witness: a run left with the INVALID error of an enum key supplied as null
C13_Witness ==
  /\ Left(Top)
  /\ Has(rawInputs[Top], "status")
  /\ Get(rawInputs[Top], "status") = Null
  /\ HasEntry(errors[Top], "status",
       <<INVALID, "null received but must be one of open, closed">>)

\* C14 (as claimed): after every completed run, a failed validation included, each
\* key the schema declares and the caller did not supply is present in the working
\* inputs, with the declared default or else the undefined value.
C14_DefaultsAppliedAfterEveryRun ==
  (Left(Top) /\ completed[Top]) =>
    \A key \in KeysOf(schemaOf(Top)) :
      ~Has(rawInputs[Top], key) =>
        /\ Has(inputs[Top], key)
        /\ Get(inputs[Top], key) =
             IF Get(schemaOf(Top), key).hasDefault
             THEN Get(schemaOf(Top), key).default ELSE Undefined

\* `after` has every entry of `before` unchanged and in place, and after them one
\* entry for each key the schema declares and `before` lacks, holding the declared
\* default or else the undefined value
DefaultsAdded(schema, before, after) ==
  /\ Len(after) >= Len(before)
  /\ SubSeq(after, 1, Len(before)) = before
  /\ \A i \in (Len(before) + 1)..Len(after) :
       /\ after[i].k \in KeysOf(schema) \ KeysOf(before)
       /\ after[i].v = IF Get(schema, after[i].k).hasDefault
                       THEN Get(schema, after[i].k).default ELSE Undefined
  /\ KeysOf(after) = KeysOf(before) \cup KeysOf(schema)
  /\ Len(after) = Cardinality(KeysOf(after))

\* the run of the instance has applied the defaults
DefaultsApplied(id) ==
  \/ pc[id] \in {"validate", "execute", "awaitSub"}
  \/ pc[id] \in {"finally", "returned", "raised"} /\ ~StructurallyInvalid(id)

\* C15: defaulting never changes a value the caller supplied, falsy ones (false, 0,
\* '', null) included, and adds only keys the schema declares; applying it to its
\* own output changes nothing; the working inputs of a run that applied the
\* defaults are the supplied inputs with exactly those additions.
C15_DefaultsKeepSuppliedValues ==
  LET schema == schemaOf(Top)
      once == applyDefaultInputs(schema, rawInputs[Top])
  IN  /\ DefaultsAdded(schema, rawInputs[Top], once)
      /\ applyDefaultInputs(schema, once) = once
      /\ DefaultsApplied(Top) =>
           /\ DefaultsAdded(schema, rawInputs[Top], inputs[Top])
           /\ applyDefaultInputs(schema, inputs[Top]) = inputs[Top]

\* C15 witness: a successful run for a key supplied as false whose entry declares a
\* default: the value is still false, and another key was added by defaulting
C15_Witness ==
  /\ pc[Top] = "returned"
  /\ success(errors[Top])
  /\ Has(rawInputs[Top], "name")
  /\ Get(rawInputs[Top], "name") = VFalse
  /\ Has(schemaOf(Top), "name")
  /\ Get(schemaOf(Top), "name").hasDefault
  /\ Get(inputs[Top], "name") = VFalse
  /\ Has(inputs[Top], "status")
  /\ Get(inputs[Top], "status") = VOpen

\* C16: from construction on, the object the caller supplied is never changed: not
\* by defaulting, not by a hook, not by a second invocation, however the run ends.
C16_RawInputsNeverMutated ==
  [][\A id \in Ids : pc[id] # "none" => rawInputs'[id] = rawInputs[id]]_vars

\* C16 witness: a run completed after defaulting wrote keys to the working inputs
\* that the caller's object does not have
C16_Witness ==
  /\ pc[Top] = "returned"
  /\ completed[Top]
  /\ KeysOf(inputs[Top]) # KeysOf(rawInputs[Top])
  /\ KeysOf(rawInputs[Top]) = {"name"}

\* C17 (as claimed): runAndAssertSuccess returns the bare result when the outcome is
\* successful, and otherwise raises an exception whose message is the error
\* sentence of the outcome.
C17_EveryFailureRaisesSentence ==
  \A id \in Live :
    Left(id) =>
      IF success(errors[id])
      THEN runAndAssertSuccess(id) = Value(result[id])
      ELSE runAndAssertSuccess(id) = Raised(errorSentence(errors[id]))

\* the categories of a ledger, in order
Categories(errs) == [i \in 1..Len(errs) |-> errs[i].category]

\* C17 (amended): when run returns, runAndAssertSuccess returns the bare result if
\* the outcome is successful and otherwise raises one exception whose message is the
\* error sentence: the messages in ledger order joined by ', and ', then a period
\* ('name is missing.' for a missing required name); when run raises an unexpected
\* exception, that exception is what runAndAssertSuccess raises, with its own message.
C17_FailedOutcomeRaisesSentence ==
  \A id \in Live :
    Left(id) =>
      LET r == runAndAssertSuccess(id)
      IN  /\ (pc[id] = "returned" /\ success(errors[id])) => r = Value(result[id])
          /\ (pc[id] = "returned" /\ ~success(errors[id])) =>
               /\ r = Raised(errorSentence(errors[id]))
               /\ errors[id] = <<[category |-> "name",
                                  entries |-> <<<<MISSING, "name is missing">>>>]>>
                    => r.message = "name is missing."
               /\ (Categories(errors[id]) = <<"bogus", "name">>
                     /\ HasEntryOfKind(errors[id], "name", MISSING))
                    => r.message = "bogus is not a supported input, and name is missing."
               /\ errors[id] = <<[category |-> "name",
                                  entries |-> <<<<INVALID, "invalid value!">>>>]>>
                    => r.message = "invalid value!."
          /\ pc[id] = "raised" =>
               /\ ~success(errors[id])
               /\ r = Raised(exc[id].message)
               /\ r.message \in ThrownMessages \cup {TypeErrorMessage}

\* C17 witness: run returned a failed outcome with two errors, and the message of
\* runAndAssertSuccess joins them
C17_Witness ==
  /\ pc[Top] = "returned"
  /\ ~success(errors[Top])
  /\ runAndAssertSuccess(Top) =
       Raised("bogus is not a supported input, and name is missing.")

\* the categories a ledger of the model can have
AllCategories == InputKeys \cup {"field1", RUNTIME, UNKNOWN}

\* the entries of a child named Foo as they appear in the ledger of its parent
NamespacedFoo(entries) ==
  [j \in 1..Len(entries) |-> <<"Foo:" \o entries[j][1], entries[j][2]>>]

\* runSubCommand resumes in this step, and the child's run had returned an outcome
SubCommandReturned == pc[Top] = "awaitSub" /\ pc'[Top] # "awaitSub" /\ pc[Child] = "returned"

\* C18: when the run of the child returns an unsuccessful outcome, runSubCommand
\* appends every entry of every category of the child's ledger to the same category
\* of the parent's ledger, after the entries the parent had, in the child's order,
\* with the symbolic key rewritten to 'Foo:<key>' and the message unchanged, and
\* adds nothing else; when the child succeeds, the parent's ledger stays as it was.
C18_ChildErrorsCopiedNamespaced ==
  [][SubCommandReturned =>
       IF success(errors[Child]) THEN errors'[Top] = errors[Top]
       ELSE /\ \A c \in AllCategories :
                 EntriesOf(errors'[Top], c) =
                   EntriesOf(errors[Top], c) \o NamespacedFoo(EntriesOf(errors[Child], c))
            /\ \A i \in 1..Len(errors'[Top]) : errors'[Top][i].category \in AllCategories
            /\ SubSeq(Categories(errors'[Top]), 1, Len(errors[Top])) = Categories(errors[Top])
            /\ errors'[Child] = errors[Child]]_vars

\* C18 witness: the parent had an error under name, and the child's error under
\* name was appended to it
C18_Witness ==
  /\ pc[Top] # "awaitSub"
  /\ pc[Child] = "returned"
  /\ EntriesOf(errors[Child], "name") = <<<<INVALID, "invalid value!">>>>
  /\ EntriesOf(errors[Top], "name") =
       <<<<INVALID, "invalid value!">>, <<"Foo:invalid", "invalid value!">>>>

\* the parent's runSubCommand has resumed with the unsuccessful outcome of the child
ResumedWithFailedChild ==
  /\ pc[Top] \notin {"new", "validateInputs", "applyDefaultInputs", "validate", "awaitSub"}
  /\ pc[Child] = "returned"
  /\ ~success(errors[Child])

\* C19: in assert mode (the default) a child that returned an unsuccessful outcome
\* halts the parent's execute right after its errors were copied: the halt is
\* raised in the same step, no statement of execute runs after the runSubCommand
\* call, no result is set, and the parent's run returns an unsuccessful outcome and
\* raises nothing; in outcome mode the parent's execute goes on after the call,
\* with the child's outcome as the value of the call.
C19_AssertModeHaltsParent ==
  /\ [][(SubCommandReturned /\ ~success(errors[Child])) =>
          IF sub[Top] = "assert"
          THEN /\ pc'[Top] = "catch"
               /\ exc'[Top] = HaltExecution
               /\ ~success(errors'[Top])
          ELSE /\ pc'[Top] = "execute"
               /\ exc'[Top] = NoExc
               /\ runSubCommandReturn(Top) =
                    [success |-> FALSE, result |-> result[Child], errors |-> errors[Child]]]_vars
  /\ [](ResumedWithFailedChild /\ sub[Top] = "assert" =>
          /\ pc[Top] \in {"catch", "finally", "returned"}
          /\ last[Top] = [hook |-> "execute", op |-> "runSubCommand"]
          /\ result[Top] = Null
          /\ ~success(errors[Top])
          /\ pc[Top] = "returned" => (completed[Top] /\ exc[Top] = NoExc))

\* C19 witness: an assert-mode parent returned after its child failed
C19_Witness ==
  /\ ResumedWithFailedChild
  /\ sub[Top] = "assert"
  /\ pc[Top] = "returned"
  /\ HasEntry(errors[Top], "field1", <<"Foo:missing", "field1 is missing">>)

C21_NoSchemaRunsLikeEmptySchema ==
  \A id \in Live :
    (/\ cls[id].schemaAt = "none"
     /\ rawInputs[id] = <<>>
     /\ Left(id)
     /\ last[id].op \in {"none", "return"}) =>
      /\ pc[id] = "returned"
      /\ exc[id] = NoExc
      /\ success(errors[id])
      /\ last[id].op = "return"
      /\ result[id] \in ReturnValues

\* C22: once execute has called addInputErrorAndHalt(input, key, message), the
\* error is the last entry of that input's category, no later statement of execute
\* runs, the result stays unset, and the run returns an unsuccessful outcome and
\* raises nothing.
C22_InputErrorAndHaltHaltsExecute ==
  \A id \in Ids :
    last[id] = [hook |-> "execute", op |-> "addInputErrorAndHalt"] =>
      /\ pc[id] \in {"catch", "finally", "returned"}
      /\ \E e \in HookInputErrors :
           /\ HasCategory(errors[id], e[1])
           /\ LastEntry(errors[id], e[1]) = <<e[2], e[3]>>
      /\ result[id] = Null
      /\ exc[id].kind \in {"halt", "none"}
      /\ pc[id] = "catch" => exc[id] = HaltExecution
      /\ pc[id] = "returned" => (completed[id] /\ ~success(errors[id]) /\ caught[id] = "halt")

\* C22 witness: execute ran a statement, then addInputErrorAndHalt, and the run
\* returned
C22_Witness ==
  /\ last[Top] = [hook |-> "execute", op |-> "addInputErrorAndHalt"]
  /\ steps[Top] > 0
  /\ pc[Top] = "returned"
  /\ HasEntry(errors[Top], "name", <<INVALID, "invalid value!">>)

\* C23: while the validate hook or execute runs, and after a successful run, every
\* key the schema declares is in the working inputs, with the caller's value when
\* the caller supplied the key and else the declared default, or undefined when
\* the entry declares none.
C23_DefaultsDoneBeforeHooks ==
  \A id \in Live :
    (pc[id] \in {"validate", "execute", "awaitSub"}
       \/ (pc[id] = "returned" /\ success(errors[id]))) =>
      \A key \in KeysOf(schemaOf(id)) :
        /\ Has(inputs[id], key)
        /\ Get(inputs[id], key) =
             IF Has(rawInputs[id], key) THEN Get(rawInputs[id], key)
             ELSE IF Get(schemaOf(id), key).hasDefault THEN Get(schemaOf(id), key).default
             ELSE Undefined

\* C23 witness: execute runs with a supplied name and a status that was not
\* supplied and reads as its default
C23_Witness ==
  /\ pc[Top] = "execute"
  /\ Has(rawInputs[Top], "name")
  /\ ~Has(rawInputs[Top], "status")
  /\ Has(inputs[Top], "status")
  /\ Get(inputs[Top], "status") = VOpen
  /\ Get(inputs[Top], "name") = Get(rawInputs[Top], "name")

\* sequence a is sequence b, or b with entries removed from its end
IsPrefix(a, b) == Len(a) <= Len(b) /\ SubSeq(b, 1, Len(a)) = a

\* the number of entries of a ledger
RECURSIVE Size(_)
Size(errs) == IF errs = <<>> THEN 0 ELSE Len(Head(errs).entries) + Size(Tail(errs))

\* C24: the ledger is append-only: in every step the categories of a ledger keep
\* their order and every category's sequence is the one before, extended at its
\* end; one addInputError, addRuntimeError, addInputErrorAndHalt or addUnknownError
\* call adds exactly one entry, also when the category holds the same entry
\* already; no category is ever empty, and success is true exactly when the ledger
\* has no category.
C24_LedgerAppendOnly ==
  /\ [][\A id \in Ids :
          /\ IsPrefix(Categories(errors[id]), Categories(errors'[id]))
          /\ \A c \in AllCategories :
               IsPrefix(EntriesOf(errors[id], c), EntriesOf(errors'[id], c))
          /\ (steps'[id] = steps[id] + 1 /\ last'[id].op = "addInputError") =>
               /\ Size(errors'[id]) = Size(errors[id]) + 1
               /\ \E e \in HookInputErrors :
                    EntriesOf(errors'[id], e[1]) = Append(EntriesOf(errors[id], e[1]), <<e[2], e[3]>>)
          /\ (pc[id] \in {"validate", "execute"} /\ pc'[id] = "catch"
                /\ last'[id].op \in {"addRuntimeError", "addInputErrorAndHalt"}) =>
               Size(errors'[id]) = Size(errors[id]) + 1
          /\ (pc[id] = "catch" /\ pc'[id] = "finally" /\ exc[id].kind = "error") =>
               EntriesOf(errors'[id], RUNTIME) =
                 Append(EntriesOf(errors[id], RUNTIME), <<UNKNOWN, exc[id].message>>)]_vars
  /\ [](\A id \in Ids :
          /\ \A i \in 1..Len(errors[id]) :
               /\ errors[id][i].entries # <<>>
               /\ errors[id][i].category \in AllCategories
               /\ \A j \in 1..Len(errors[id]) : i # j => errors[id][i].category # errors[id][j].category
          /\ success(errors[id]) <=> Size(errors[id]) = 0
          /\ completed[id] => GetSuccess(id) = Value(Size(errors[id]) = 0))

\* C24 witness: a hook added the same key and message twice, and the category holds
\* two entries
C24_Witness ==
  /\ last[Top].op = "addInputError"
  /\ steps[Top] = 2
  /\ EntriesOf(errors[Top], "name") =
       <<<<INVALID, "invalid value!">>, <<INVALID, "invalid value!">>>>

\* the <<category, message>> pairs of a ledger, category by category
RECURSIVE Pairs(_)
Pairs(errs) ==
  IF errs = <<>> THEN <<>>
  ELSE [j \in 1..Len(Head(errs).entries) |-> <<Head(errs).category, Head(errs).entries[j][2]>>]
         \o Pairs(Tail(errs))

\* the <<category, message>> pairs in the order validateInputs inserted them: each
\* check inserts at most one error per key
InsertionOrder(schema, ins) ==
  Pairs(validateSupportedInputs(schema, ins, <<>>))
    \o Pairs(validateBlankInputs(schema, ins, <<>>))
    \o Pairs(validateRequiredInputs(schema, ins, <<>>))
    \o Pairs(validateEnums(schema, ins, <<>>))

MessagesOf(pairs) == [i \in 1..Len(pairs) |-> pairs[i][2]]

\* the pairs regrouped: the categories in the order of their first pair, and
\* under each category its pairs in their order
RECURSIVE GroupedByCategory(_)
GroupedByCategory(pairs) ==
  IF pairs = <<>> THEN <<>>
  ELSE LET Same(p) == p[1] = Head(pairs)[1]
           Other(p) == p[1] # Head(pairs)[1]
       IN  SelectSeq(pairs, Same) \o GroupedByCategory(SelectSeq(pairs, Other))

\* C25 (as claimed): the error sentence of a run lists the messages in the order in
\* which the errors were inserted into the ledger, joined by ', and ' and ended by
\* a period, also when the insertions alternate between categories.
C25_SentenceInInsertionOrder ==
  Left(Top) =>
    errorSentence(errors[Top]) =
      JoinAnd(MessagesOf(InsertionOrder(schemaOf(Top), rawInputs[Top]))) \o "."

\* C25 (amended): the error sentence of a run lists the messages category by
\* category, the categories in the order of their first insertion and each
\* category's messages in insertion order, joined by ', and ' and ended by a period;
\* errors inserted into category A, then B, then A again read A, A, B.
C25_SentenceGroupedByCategory ==
  Left(Top) =>
    /\ errorSentence(errors[Top]) =
         JoinAnd(MessagesOf(GroupedByCategory(InsertionOrder(schemaOf(Top), rawInputs[Top]))))
           \o "."
    /\ (Categories(errors[Top]) = <<"status", "name">>
          /\ Has(rawInputs[Top], "status") /\ Get(rawInputs[Top], "status") = Null
          /\ Len(EntriesOf(errors[Top], "status")) = 2
          /\ EntriesOf(errors[Top], "name") = <<<<MISSING, "name is missing">>>>) =>
         errorSentence(errors[Top]) =
           "status is not allowed to be blank, and null received but must be one of open, closed, and name is missing."

\* C25 witness: validation inserted a BLANK error for status, then a MISSING error
\* for name, then an INVALID error for status
C25_Witness ==
  /\ Left(Top)
  /\ MessagesOf(InsertionOrder(schemaOf(Top), rawInputs[Top])) =
       <<"status is not allowed to be blank", "name is missing",
         "null received but must be one of open, closed">>
  /\ Categories(errors[Top]) = <<"status", "name">>

\* the step is, or may be, a step of the run of instance id
Moved(id) == pc'[id] # pc[id] \/ steps'[id] # steps[id] \/ last'[id] # last[id]

\* C26: in every interleaving of the runs of two commands the caller created, a
\* step is the step of one of them, and it leaves the errors, the result, the
\* started and completed flags, the working inputs and the caller's inputs of the
\* other as they were.
C26_InstancesShareNoState ==
  [][/\ Cardinality({id \in Ids : Moved(id)}) <= 1
     /\ \A id \in Ids :
          ~Moved(id) =>
            /\ errors'[id] = errors[id]
            /\ result'[id] = result[id]
            /\ started'[id] = started[id]
            /\ completed'[id] = completed[id]
            /\ inputs'[id] = inputs[id]
            /\ rawInputs'[id] = rawInputs[id]
            /\ exc'[id] = exc[id]]_vars

\* C26 witness: two commands of one type, constructed with equal inputs, ran side by
\* side; one is inside execute with its defaults applied, the other has failed in
\* its validate hook
C26_Witness ==
  /\ cls[Top] = cls[Child]
  /\ rawInputs[Top] = rawInputs[Child]
  /\ pc[Top] = "execute"
  /\ inputs[Top] # rawInputs[Top]
  /\ pc[Child] = "returned"
  /\ ~success(errors[Child])
  /\ success(errors[Top])

\* the symbolic keys a failed child named Foo leaves in the ledger of its parent
NamespacedKeys ==
  {"Foo:" \o key : key \in {NOT_FOUND, INVALID, MISSING, BLANK, UNSUPPORTED, UNKNOWN}}

HasNamespacedEntry(errs) ==
  \E i \in 1..Len(errs) : \E j \in 1..Len(errs[i].entries) :
    errs[i].entries[j][1] \in NamespacedKeys

\* C27: whenever a halt is pending, and whenever the catch clause of run has
\* swallowed one, the ledger of the instance is not empty: the halt of
\* addRuntimeError follows its own entry, the halts of validateInputs and of the
\* validate hook's haltIfHasErrors find a ledger that is not empty, and the halt of
\* runSubCommand follows at least one entry copied from the child; so a run that a
\* halt cut short never returns a successful outcome.
C27_HaltFollowsRecordedError ==
  \A id \in Ids :
    /\ exc[id] = HaltExecution =>
         /\ hasErrors(errors[id])
         /\ Size(errors[id]) > 0
    /\ caught[id] = "halt" =>
         /\ ~success(errors[id])
         /\ pc[id] = "returned" => GetSuccess(id) = Value(FALSE)
    /\ (exc[id] = HaltExecution \/ caught[id] = "halt") =>
         /\ last[id].op = "addRuntimeError" =>
              (HasCategory(errors[id], RUNTIME)
                 /\ \E e \in HookRuntimeErrors : LastEntry(errors[id], RUNTIME) = e)
         /\ last[id].op = "runSubCommand" =>
              (HasNamespacedEntry(errors[id]) /\ ~success(errors[Child]))

\* C27 witness: execute called addRuntimeError as its first statement, on an empty
\* ledger, and the run returned
C27_Witness ==
  /\ pc[Top] = "returned"
  /\ caught[Top] = "halt"
  /\ last[Top] = [hook |-> "execute", op |-> "addRuntimeError"]
  /\ steps[Top] = 0
  /\ Size(errors[Top]) = 1

\* C28: when the run of a child raises an exception that is not a halt, the parent's
\* runSubCommand raises the same exception and copies nothing; the parent's execute
\* never resumes; the catch clause of the parent's run adds exactly one entry,
\* <<unknown, message>>, to the runtime category, not namespaced; the parent's run
\* raises the same exception; parent and child end with completed = true.
C28_ChildExceptionAbortsParent ==
  /\ [][/\ (pc[Top] = "awaitSub" /\ pc'[Top] # "awaitSub" /\ pc[Child] = "raised") =>
             /\ pc'[Top] = "catch"
             /\ exc[Child].kind = "error"
             /\ exc'[Top] = exc[Child]
             /\ errors'[Top] = errors[Top]
        /\ (pc[Top] = "catch" /\ pc'[Top] # "catch" /\ pc[Child] = "raised") =>
             /\ Size(errors'[Top]) = Size(errors[Top]) + 1
             /\ EntriesOf(errors'[Top], RUNTIME) =
                  Append(EntriesOf(errors[Top], RUNTIME), <<UNKNOWN, exc[Child].message>>)]_vars
  /\ [](pc[Child] = "raised" =>
          /\ completed[Child]
          /\ LastEntry(errors[Child], RUNTIME) = <<UNKNOWN, exc[Child].message>>
          /\ pc[Top] \in {"awaitSub", "catch", "finally", "raised"}
          /\ last[Top] = [hook |-> "execute", op |-> "runSubCommand"]
          /\ result[Top] = Null
          /\ ~HasNamespacedEntry(errors[Top])
          /\ pc[Top] \in {"finally", "raised"} =>
               LastEntry(errors[Top], RUNTIME) = <<UNKNOWN, exc[Child].message>>
          /\ pc[Top] = "raised" =>
               (completed[Top] /\ exc[Top] = exc[Child] /\ caught[Top] = "error"))

\* C28 witness: the parent recorded an input error of its own, its child threw
\* after recording an input error, and both runs raised; the parent's ledger has
\* its own entry and the unknown entry only
C28_Witness ==
  /\ pc[Top] = "raised"
  /\ pc[Child] = "raised"
  /\ exc[Top] = Error("boom")
  /\ Size(errors[Child]) = 2
  /\ Size(errors[Top]) = 2
  /\ EntriesOf(errors[Top], RUNTIME) = <<<<UNKNOWN, "boom">>>>

\* C29: notFoundError holds of a ledger exactly when some entry of some category
\* has the symbolic key 'not_found'; a parent whose only NOT_FOUND error is the one
\* copied from its failed child, stored under 'Foo:not_found', has notFoundError
\* false, while the child has it true.
C29_NotFoundOnlyByOwnKey ==
  \A id \in Ids :
    /\ notFoundError(errors[id]) <=>
         \E c \in AllCategories : HasEntryOfKind(errors[id], c, "not_found")
    /\ (id = Top /\ last[id].op # "addRuntimeError") => ~notFoundError(errors[id])
    /\ (last[id].op = "addRuntimeError" /\ pc[id] # "execute" /\ pc[id] # "validate") =>
         notFoundError(errors[id])

\* C29 witness: the child failed with a NOT_FOUND error, the parent copied it and
\* returned; notFoundError is true of the child and false of the parent
C29_Witness ==
  /\ pc[Top] = "returned"
  /\ HasEntry(errors[Top], RUNTIME, <<"Foo:not_found", "record not found">>)
  /\ HasEntry(errors[Child], RUNTIME, <<"not_found", "record not found">>)
  /\ notFoundError(errors[Child])
  /\ ~notFoundError(errors[Top])

====
